---- MODULE Spec2Model ----
(***************************************************************************)
(* Growth/lifecycle core of the fractal garden: the branching structure    *)
(* (stem.py), the plant lifecycle and the per-branch flowering state       *)
(* machine (plant_factory.py), driven by the garden loop (garden.py).      *)
(*                                                                         *)
(* Numbers.  The program computes in floats.  The model computes in fixed  *)
(* point: a quantity q of the program is the integer q * U.  Fractions     *)
(* (growth, growth_stage, stress, stage_progress, rates) and health use    *)
(* that unit; positions are pixels * U; ages, delays and lengths are plain *)
(* integers.  U is a multiple of 100 and of 150, and the inputs the        *)
(* specifications draw are chosen so that every product and quotient the   *)
(* code forms on them is exact in that unit and fits 32 bits.              *)
(***************************************************************************)
EXTENDS Integers, Sequences, FiniteSets, TLC

VARIABLES
    defn,               \* the PlantDefinition the plant was created from
    pos,                \* Plant.x, Plant.y
    age,                \* Plant.age
    health,             \* Plant.health
    growth_stage,       \* Plant.growth_stage
    is_withering,       \* Plant.is_withering
    wither_time,        \* Plant.wither_time
    thickness,          \* StemSystem.properties.thickness (the one mutable property)
    main_stem,          \* StemSystem.main_stem without its children
    children,           \* StemSystem.main_stem.children, in creation order
    last_branch_height, \* StemSystem.last_branch_height
    stem_health,        \* StemSystem.health
    flower_data,        \* Plant.flower_data: branch identity -> record
    shown,              \* branch identity -> what _should_flower returned in the latest draw
    hist,               \* branch identity -> history of its flower record (see Draw)
    drawn,              \* garden loop: the frame of the current tick has been drawn
    grow_calls,         \* number of StemSystem.grow calls made directly on the stem
    env,                \* Plant.environment_system (an EnvironmentSystem)
    peer,               \* a second Plant created from the same PlantDefinition
    past,               \* history of the plant (see NoPast)
    garden,             \* Garden: the shared environment, the clock, the weather
    manager             \* a RendererManager (renderer.py), once one is constructed

vars == <<defn, pos, age, health, growth_stage, is_withering, wither_time,
          thickness, main_stem, children, last_branch_height, stem_health,
          flower_data, shown, hist, drawn, grow_calls, env, peer, past, garden,
          manager>>

plantVars == <<age, health, growth_stage, is_withering, wither_time>>
stemVars  == <<main_stem, children, last_branch_height>>
flowerVars == <<flower_data, shown, hist>>
sideVars == <<env, peer, past, garden, manager>>

----------------------------------------------------------------------------
(* Fixed point                                                             *)

\* 1.0 in fixed point
U == 3 * 1000

\* 1.0 of stem thickness (finer, as thickness decays by factors close to 1)
TU == 10 * 1000

Max(a, b) == IF a >= b THEN a ELSE b
Min(a, b) == IF a <= b THEN a ELSE b
Abs(a) == IF a >= 0 THEN a ELSE -a

\* a * b for two fixed-point fractions
FMul(a, b) == (a * b) \div U

\* the identities of the branches of the tree: 0 is the main stem, i the
\* i-th child (id(branch) in the program; branches are never deleted)
BranchIds == 0 .. Len(children)

----------------------------------------------------------------------------
(* Branch (stem.py)                                                        *)

\* Angles are whole degrees.  The trigonometry is tabulated on the angles
\* the specifications use: the main stem's pi/2 and pi/2 + k * atan(3/4),
\* written 90 + 37 * k, whose sines and cosines are rational.
CosT(angle) ==
    CASE angle = 90  -> 0
      [] angle = 53  -> (6 * U) \div 10
      [] angle = 127 -> -((6 * U) \div 10)
      [] angle = 16  -> (96 * U) \div 100
      [] angle = 164 -> -((96 * U) \div 100)

SinT(angle) ==
    CASE angle = 90  -> U
      [] angle = 53  -> (8 * U) \div 10
      [] angle = 127 -> (8 * U) \div 10
      [] angle = 16  -> (28 * U) \div 100
      [] angle = 164 -> (28 * U) \div 100

\* Branch._update_end_pos: the end position from start, angle, length, growth
EndPos(start_pos, angle, length, growth) ==
    <<start_pos[1] + length * FMul(CosT(angle), growth),
      start_pos[2] - length * FMul(SinT(angle), growth)>>

\* Branch.__init__, but for the list of children (the main stem's is the
\* variable children; a child's is its field children, see AddChild)
NewBranch(start_pos, angle, length) ==
    [start_pos |-> start_pos, angle |-> angle, length |-> length,
     growth |-> 0, end_pos |-> EndPos(start_pos, angle, length, 0)]

\* Branch.grow, for the branch itself
BranchGrow(b, amount) ==
    LET g == Min(U, b.growth + amount)
    IN  [b EXCEPT !.growth = g,
                  !.end_pos = EndPos(b.start_pos, b.angle, b.length, g)]

\* Branch.grow on a child: the branch itself, then "for child in
\* self.children: child.grow(amount)"
RECURSIVE GrowTree(_, _)
GrowTree(b, amount) ==
    [BranchGrow(b, amount) EXCEPT
        !.children = [i \in 1 .. Len(b.children) |->
                         GrowTree(b.children[i], amount)]]

\* AddChild with a child that is fully grown from the start
AddChildGrown(parent, angle_offset, length) ==
    [start_pos |-> parent.end_pos, angle |-> parent.angle + angle_offset,
     length |-> length, growth |-> U,
     end_pos |-> EndPos(parent.end_pos, parent.angle + angle_offset, length, U),
     children |-> <<>>]

\* Branch.add_child: the child the parent gets.  It starts at the parent's
\* current end, with an empty list of children of its own.
AddChild(parent, angle_offset, length) ==
    [start_pos |-> parent.end_pos, angle |-> parent.angle + angle_offset,
     length |-> length, growth |-> 0,
     end_pos |-> EndPos(parent.end_pos, parent.angle + angle_offset, length, 0),
     children |-> <<>>]

----------------------------------------------------------------------------
(* StemSystem (stem.py)                                                    *)

\* StemSystem.__init__: the main stem starts at (0, 0), grows upward, 300 long
MainStemLength == 300

InitMainStem == NewBranch(<<0, 0>>, 90, MainStemLength)

\* random.uniform(-branching_variance, branching_variance): the two extremes
VarianceDraws == {-defn.stem.branching_variance, defn.stem.branching_variance}

\* random.uniform(0.4, 0.8): the two extremes
LengthDraws == {(4 * U) \div 10, (8 * U) \div 10}

\* what one pass of the loop over the sides draws
SideDraws == [variance : VarianceDraws, length_variation : LengthDraws]

\* abs(main_stem.end_pos[1] - main_stem.start_pos[1])
CurrentHeight(ms) == Abs(ms.end_pos[2] - ms.start_pos[2])

\* properties.branch_spacing * main_stem.length
MinSpacing(ms) == defn.stem.branch_spacing * ms.length

\* SpawnCondition comparing the height itself with the spacing, the height of
\* the last spawn forgotten
SpawnConditionNoLast(current_height, min_spacing, n_children) ==
    /\ current_height >= min_spacing
    /\ n_children < defn.stem.max_branches

\* the condition under which StemSystem.grow adds branches
SpawnCondition(current_height, min_spacing, n_children) ==
    /\ current_height - last_branch_height >= min_spacing
    /\ n_children < defn.stem.max_branches

\* SpawnedBranches adding a branch on one side only
SpawnedOneSide(ms, d1, d2) ==
    << AddChild(ms, defn.stem.branching_angle * (-1) + d1.variance,
                FMul(ms.length, d1.length_variation)) >>

\* SpawnedBranches giving the second branch to the first as its child
SpawnedNested(ms, d1, d2) ==
    << [AddChild(ms, defn.stem.branching_angle * (-1) + d1.variance,
                 FMul(ms.length, d1.length_variation))
           EXCEPT !.children =
               << AddChild(ms, defn.stem.branching_angle * 1 + d2.variance,
                           FMul(ms.length, d2.length_variation)) >>] >>

\* the branches one spawn adds: for side in [-1, 1], in that order
SpawnedBranches(ms, d1, d2) ==
    << AddChild(ms, defn.stem.branching_angle * (-1) + d1.variance,
                FMul(ms.length, d1.length_variation)),
       AddChild(ms, defn.stem.branching_angle * 1 + d2.variance,
                FMul(ms.length, d2.length_variation)) >>

\* StemAfterGrow passing half of the increment on to the children
StemAfterGrowDamped(amount, d1, d2) ==
    LET scaled == FMul(amount, defn.stem.growth_rate)
        ms     == BranchGrow(main_stem, scaled)
        kids   == [i \in 1 .. Len(children) |->
                      GrowTree(children[i], scaled \div 2)]
        current_height == CurrentHeight(ms)
    IN  IF SpawnCondition(current_height, MinSpacing(ms), Len(kids))
        THEN [main_stem |-> ms,
              children |-> kids \o SpawnedBranches(ms, d1, d2),
              last_branch_height |-> current_height]
        ELSE [main_stem |-> ms, children |-> kids,
              last_branch_height |-> last_branch_height]

\* StemSystem.grow(amount): the stem after the call, the two sides' draws
\* being d1 and d2 (read only when branches are added)
StemAfterGrow(amount, d1, d2) ==
    LET scaled == FMul(amount, defn.stem.growth_rate)
        ms     == BranchGrow(main_stem, scaled)
        kids   == [i \in 1 .. Len(children) |-> GrowTree(children[i], scaled)]
        current_height == CurrentHeight(ms)
    IN  IF SpawnCondition(current_height, MinSpacing(ms), Len(kids))
        THEN [main_stem |-> ms,
              children |-> kids \o SpawnedBranches(ms, d1, d2),
              last_branch_height |-> current_height]
        ELSE [main_stem |-> ms, children |-> kids,
              last_branch_height |-> last_branch_height]

\* the stems a grow(amount) call can leave (one per outcome of the draws)
StemOutcomes(amount) ==
    {StemAfterGrow(amount, d1, d2) : d1 \in SideDraws, d2 \in SideDraws}

\* StemAfterDraw moving the start of the main stem only
StemAfterDrawStartOnly(ms, p) == [ms EXCEPT !.start_pos = p]

\* StemSystem.draw(surface, pos): moves the main stem to the plant's position
StemAfterDraw(ms, p) ==
    [ms EXCEPT !.start_pos = p,
               !.end_pos = EndPos(p, ms.angle, ms.length, ms.growth)]

----------------------------------------------------------------------------
(* EnvironmentSystem (environment.py)                                      *)

\* Garden.__init__: the EnvironmentalFactors the garden starts with
GardenEnvironment ==
    [water_level |-> 70, light_level |-> 80, temperature |-> 22, humidity |-> 60,
     soil_quality |-> 90]

\* EnvironmentSystem.__init__.  raised tells whether the latest update call
\* ended in a ZeroDivisionError; updates counts the update calls.
InitEnvironmentSystem ==
    [stress_factors |-> [water |-> 0, light |-> 0, temperature |-> 0,
                         humidity |-> 0],
     overall_health |-> 100 * U,
     growth_rate_modifier |-> U,
     raised |-> FALSE,
     updates |-> 0]

\* the divisions of the four stress functions whose divisor is zero
WaterStressRaises(water_level) ==
    \/ water_level < defn.optimal_water[1] /\ defn.optimal_water[1] = 0
    \/ /\ water_level >= defn.optimal_water[1]
       /\ water_level > defn.optimal_water[2] /\ defn.optimal_water[2] = 100

LightStressRaises(light_level) ==
    \/ light_level < defn.optimal_light[1] /\ defn.optimal_light[1] = 0
    \/ /\ light_level >= defn.optimal_light[1]
       /\ light_level > defn.optimal_light[2] /\ defn.optimal_light[2] = 100

TemperatureStressRaises(temperature) ==
    \/ temperature < defn.optimal_temp[1] /\ defn.optimal_temp[1] = 0
    \/ /\ temperature >= defn.optimal_temp[1]
       /\ temperature > defn.optimal_temp[2] /\ defn.optimal_temp[2] = 0

HumidityStressRaises(humidity) ==
    \/ humidity < defn.optimal_humidity[1] /\ defn.optimal_humidity[1] = 0
    \/ /\ humidity >= defn.optimal_humidity[1]
       /\ humidity > defn.optimal_humidity[2] /\ defn.optimal_humidity[2] = 100

\* EnvironmentSystem._calculate_water_stress
CalculateWaterStress(water_level) ==
    LET min_water == defn.optimal_water[1]
        max_water == defn.optimal_water[2]
    IN  IF water_level < min_water
        THEN FMul(((min_water - water_level) * U) \div min_water,
                  U - defn.drought_tolerance)
        ELSE IF water_level > max_water
        THEN ((water_level - max_water) * U) \div (100 - max_water)
        ELSE 0

\* EnvironmentSystem._calculate_light_stress
CalculateLightStress(light_level) ==
    LET min_light == defn.optimal_light[1]
        max_light == defn.optimal_light[2]
    IN  IF light_level < min_light
        THEN ((min_light - light_level) * U) \div min_light
        ELSE IF light_level > max_light
        THEN ((light_level - max_light) * U) \div (100 - max_light)
        ELSE 0

\* EnvironmentSystem._calculate_temperature_stress
CalculateTemperatureStress(temperature) ==
    LET min_temp == defn.optimal_temp[1]
        max_temp == defn.optimal_temp[2]
    IN  IF temperature < min_temp
        THEN ((min_temp - temperature) * U) \div min_temp
        ELSE IF temperature > max_temp
        THEN FMul(((temperature - max_temp) * U) \div max_temp,
                  U - defn.heat_tolerance)
        ELSE 0

\* EnvironmentSystem._calculate_humidity_stress
CalculateHumidityStress(humidity) ==
    LET min_humidity == defn.optimal_humidity[1]
        max_humidity == defn.optimal_humidity[2]
    IN  IF humidity < min_humidity
        THEN ((min_humidity - humidity) * U) \div min_humidity
        ELSE IF humidity > max_humidity
        THEN ((humidity - max_humidity) * U) \div (100 - max_humidity)
        ELSE 0

\* sum(self.stress_factors.values())
StressSum(sf) == sf.water + sf.light + sf.temperature + sf.humidity

\* EnvironmentSystem._update_health: avg_stress = sum / 4, and the health
\* falls by avg_stress * 2 or recovers by 0.1 * soil_quality / 100
UpdatedHealth(overall_health, sf, soil_quality) ==
    IF StressSum(sf) > 0
    THEN Max(0, overall_health - StressSum(sf) \div 2)
    ELSE Min(100 * U, overall_health + (U * soil_quality) \div 1000)

\* UpdatedGrowthRate dividing the average stress by 4 again
UpdatedGrowthRateQuartered(overall_health, sf) ==
    Max(0, FMul(overall_health \div 100, U - StressSum(sf) \div 16))

\* EnvironmentSystem._update_growth_rate:
\* max(0, overall_health / 100 * (1 - sum / 4))
UpdatedGrowthRate(overall_health, sf) ==
    Max(0, FMul(overall_health \div 100, U - StressSum(sf) \div 4))

\* EnvironmentSystem.should_wither
ShouldWither(en) ==
    en.overall_health < 20 * U \/ en.growth_rate_modifier < U \div 10

\* EnvironmentSystem.update(environment), called on the plant's environment
\* system.  The four stress values are stored one after the other, so a
\* division by zero leaves the ones before it stored and nothing else done.
EnvironmentUpdated(en, e) ==
    LET counted == [en EXCEPT !.updates = @ + 1]
        s1 == [counted EXCEPT !.stress_factors.water =
                                  CalculateWaterStress(e.water_level)]
        s2 == [s1 EXCEPT !.stress_factors.light =
                             CalculateLightStress(e.light_level)]
        s3 == [s2 EXCEPT !.stress_factors.temperature =
                             CalculateTemperatureStress(e.temperature)]
        s4 == [s3 EXCEPT !.stress_factors.humidity =
                             CalculateHumidityStress(e.humidity)]
        oh == UpdatedHealth(s4.overall_health, s4.stress_factors, e.soil_quality)
    IN  IF WaterStressRaises(e.water_level)
        THEN [counted EXCEPT !.raised = TRUE]
        ELSE IF LightStressRaises(e.light_level)
        THEN [s1 EXCEPT !.raised = TRUE]
        ELSE IF TemperatureStressRaises(e.temperature)
        THEN [s2 EXCEPT !.raised = TRUE]
        ELSE IF HumidityStressRaises(e.humidity)
        THEN [s3 EXCEPT !.raised = TRUE]
        ELSE [s4 EXCEPT !.overall_health = oh,
                        !.growth_rate_modifier =
                            UpdatedGrowthRate(oh, s4.stress_factors),
                        !.raised = FALSE]

\* The history kept with the plant (not program state):
\*   wither_age     Plant.age at the update call that started the withering
\*   wither_health  Plant.health at that call
\*   should_wither  environment_system.should_wither() has been true after
\*                  some call
\*   environment    the argument of the latest EnvironmentSystem.update call
\*                  (before any, the environment the garden starts with)
NoPast ==
    [wither_age |-> 0 - 1, wither_health |-> 0 - 1, should_wither |-> FALSE,
     environment |-> GardenEnvironment]

----------------------------------------------------------------------------
(* Plant: lifecycle (plant_factory.py)                                     *)

\* Plant.max_wither_time
MaxWitherTime == 300

\* health is on the scale 0 .. 100
Health(h) == h * U

\* Plant._calculate_stress(value, optimal_range); value and the range are on
\* the environment's 0 .. 100 scale, the result is a fraction
CalculateStress(value, optimal_range) ==
    IF optimal_range[1] <= value /\ value <= optimal_range[2]
    THEN 0
    ELSE LET below == value < optimal_range[1]
             deviation == IF below THEN optimal_range[1] - value
                                   ELSE value - optimal_range[2]
             max_deviation == IF below THEN optimal_range[1]
                                       ELSE 100 - optimal_range[2]
         IN  Min(U, (deviation * U) \div max_deviation)

\* stress = max(water_stress, light_stress)
Stress(water_level, light_level) ==
    Max(CalculateStress(water_level, defn.optimal_water),
        CalculateStress(light_level, defn.optimal_light))

\* HealthChange losing health under every positive stress
HealthChangeAnyStress(stress) ==
    IF stress > 0 THEN -((2 * stress) \div 10) ELSE (U - stress) \div 10

\* health_change = -0.2 * stress if stress > 0.5 else 0.1 * (1 - stress)
HealthChange(stress) ==
    IF 2 * stress > U THEN -((2 * stress) \div 10) ELSE (U - stress) \div 10

\* StressedHealth without the cap at 100
StressedHealthNoCap(h, stress) == Max(0, h + HealthChange(stress))

\* self.health = max(0, min(100, self.health + health_change))
StressedHealth(h, stress) == Max(0, Min(Health(100), h + HealthChange(stress)))

\* GrowthAmount leaving the stress out
GrowthAmountUnstressed(stress) == (5 * defn.growth_rate) \div 1000

\* growth_amount = 0.005 * (1 - stress) * growth_rate
GrowthAmount(stress) == (5 * FMul(U - stress, defn.growth_rate)) \div 1000

\* self.growth_stage = min(1.0, self.growth_stage + growth_amount)
GrownStage(gs, growth_amount) == Min(U, gs + growth_amount)

\* every fifth tick: self.health = max(0, self.health - stress * 0.1)
PeriodicHealth(h, stress) == Max(0, h - stress \div 10)

\* WitherHealth keeping the health non-negative by its absolute value
WitherHealthAbs(h) == Abs(h - U \div 2)

\* WitherHealth leaving the health of a withering plant as it is
WitherHealthKept(h) == h

\* WitherHealth taking a quarter point
WitherHealthSlow(h) == Max(0, h - U \div 4)

\* while withering: self.health = max(0, self.health - 0.5)
WitherHealth(h) == Max(0, h - U \div 2)

\* while withering: thickness *= (1 - wither_progress * 0.01), where
\* wither_progress = wither_time / max_wither_time (rounded down to 1/TU)
WitherThickness(t, wt) ==
    (t * (100 * MaxWitherTime - wt)) \div (100 * MaxWitherTime)

\* ShouldStartWithering with strict comparisons
ShouldStartWitheringStrict(a, h) == a > defn.lifespan \/ h < Health(20)

\* the test that starts the withering
ShouldStartWithering(a, h) == a >= defn.lifespan \/ h <= Health(20)

\* IsDead with a max_wither_time of 100
IsDeadEarly == health <= 0 \/ (is_withering /\ wither_time >= 100)

\* Plant.is_dead
IsDead == health <= 0 \/ (is_withering /\ wither_time >= MaxWitherTime)

\* Plant.update(environment): one tick.  The history of every flower record
\* notes whether the tick that ends here evaluated the record; the plant's
\* history notes the call that starts the withering.  The call leaves the
\* plant's environment system alone.
Update(water_level, light_level) ==
    /\ drawn
    /\ drawn' = FALSE
    /\ age' = age + 1
    /\ hist' = [b \in DOMAIN hist |->
                  [hist[b] EXCEPT !.every_tick = @ /\ hist[b].eval_age = age]]
    /\ past' = IF (age + 1) % 2 = 0 /\ ~is_withering
                  /\ ShouldStartWithering(age + 1, health)
               THEN [past EXCEPT !.wither_age = age + 1, !.wither_health = health,
                                 !.should_wither = @ \/ ShouldWither(env)]
               ELSE [past EXCEPT !.should_wither = @ \/ ShouldWither(env)]
    /\ UNCHANGED <<defn, pos, stem_health, flower_data, shown, grow_calls, env, peer,
                   garden, manager>>
    /\ IF (age + 1) % 2 # 0
       THEN UNCHANGED <<health, growth_stage, is_withering, wither_time,
                        thickness, stemVars>>
       ELSE IF is_withering
       THEN /\ wither_time' = wither_time + 1
            /\ health' = WitherHealth(health)
            /\ thickness' = WitherThickness(thickness, wither_time + 1)
            /\ UNCHANGED <<growth_stage, is_withering, stemVars>>
       ELSE IF ShouldStartWithering(age + 1, health)
       THEN /\ is_withering' = TRUE
            /\ UNCHANGED <<health, growth_stage, wither_time, thickness, stemVars>>
       ELSE LET stress == Stress(water_level, light_level)
                h1 == StressedHealth(health, stress)
                growth_amount == GrowthAmount(stress)
                gs1 == IF h1 > Health(50)
                       THEN GrownStage(growth_stage, growth_amount)
                       ELSE growth_stage
                h2 == IF (age + 1) % 5 = 0 THEN PeriodicHealth(h1, stress) ELSE h1
            IN  /\ health' = h2
                /\ growth_stage' = gs1
                /\ UNCHANGED <<is_withering, wither_time, thickness>>
                /\ IF h1 > Health(50) /\ gs1 > 0
                   THEN \E s \in StemOutcomes(growth_amount * 2) :
                            /\ main_stem' = s.main_stem
                            /\ children' = s.children
                            /\ last_branch_height' = s.last_branch_height
                   ELSE UNCHANGED stemVars

----------------------------------------------------------------------------
(* Plant: flowering (plant_factory.py)                                     *)

\* how often the reschedule draw of one flower record may fail
MaxFailedDraws == 2

\* Python's None, for the fields that hold an age or None
None == 0 - 1

\* the durations of the bud, opening and withering stages, in ticks
BudDuration == 100
OpeningDuration == 150
WitheringDuration == 100

\* random.randint(300, 600) of a new flower cycle: the two extremes
RescheduleMin == 300
RescheduleMax == 600

\* the branch with identity b
BranchOf(b) == IF b = 0 THEN main_stem ELSE children[b]

\* random.random() < flowering.chance
ShouldFlowerDraws ==
    IF defn.flowering.chance <= 0 THEN {FALSE}
    ELSE IF defn.flowering.chance >= U THEN {TRUE}
    ELSE BOOLEAN

\* everything one _should_flower call may draw: the three draws of a new
\* record (the delay and the reschedule delay at their extremes, the size
\* factor at its middle), then the two draws at the end of the withering
FlowerDraws ==
    [should_flower : ShouldFlowerDraws,
     delay : {defn.flowering.min_delay, defn.flowering.max_delay},
     size_random : {U \div 2},
     again : BOOLEAN,
     new_delay : {RescheduleMin, RescheduleMax}]

\* EntryGate with the earlier growth threshold of 0.5
EntryGateHalfGrown(branch_growth) ==
    /\ branch_growth >= U \div 2
    /\ growth_stage >= defn.flowering.min_maturity

\* the two early returns of _should_flower, negated
EntryGate(branch_growth) ==
    /\ branch_growth >= (95 * U) \div 100
    /\ growth_stage >= defn.flowering.min_maturity

\* the record _should_flower stores for a branch it has not evaluated before
NewRecord(d) ==
    [should_flower |-> d.should_flower,
     flower_time |-> age + d.delay,
     bloom_end |-> None,
     size |-> FMul((thickness * 75) \div 10, (8 * U + 4 * d.size_random) \div 10),
     stage |-> "bud",
     stage_progress |-> 0,
     bud_start |-> None]

\* min(1.0, time_in_stage / duration)
StageProgress(data, duration) == Min(U, ((age - data.bud_start) * U) \div duration)

\* "Initialize bud if not started"
StartBud(data) ==
    IF data.bud_start = None
    THEN [data EXCEPT !.bud_start = age, !.stage = "bud", !.stage_progress = 0]
    ELSE data

\* BudStep leaving bud_start at the start of the bud when the flower opens
BudStepKeepStart(data) ==
    IF StageProgress(data, BudDuration) >= U
    THEN [data EXCEPT !.stage = "opening", !.stage_progress = 0]
    ELSE [data EXCEPT !.stage_progress = StageProgress(data, BudDuration)]

\* the branch of the stage update for stage 'bud'
BudStep(data) ==
    IF StageProgress(data, BudDuration) >= U
    THEN [data EXCEPT !.stage = "opening", !.stage_progress = 0, !.bud_start = age]
    ELSE [data EXCEPT !.stage_progress = StageProgress(data, BudDuration)]

\* OpeningStep leaving stage_progress as it is when the flower has opened
OpeningStepNoReset(data) ==
    IF StageProgress(data, OpeningDuration) >= U
    THEN [data EXCEPT !.stage = "bloomed", !.bud_start = age,
                      !.bloom_end = age + defn.flowering.bloom_duration]
    ELSE [data EXCEPT !.stage_progress = StageProgress(data, OpeningDuration)]

\* the branch for stage 'opening'
OpeningStep(data) ==
    IF StageProgress(data, OpeningDuration) >= U
    THEN [data EXCEPT !.stage = "bloomed", !.stage_progress = 0, !.bud_start = age,
                      !.bloom_end = age + defn.flowering.bloom_duration]
    ELSE [data EXCEPT !.stage_progress = StageProgress(data, OpeningDuration)]

\* BloomedStep starting the withering on the tick the bloom ends
BloomedStepAtEnd(data) ==
    IF age >= data.bloom_end
    THEN [data EXCEPT !.stage = "withering", !.stage_progress = 0, !.bud_start = age]
    ELSE data

\* the branch for stage 'bloomed'
BloomedStep(data) ==
    IF age > data.bloom_end
    THEN [data EXCEPT !.stage = "withering", !.stage_progress = 0, !.bud_start = age]
    ELSE data

\* the withering is complete in this evaluation
WitheringDone(data) == StageProgress(data, WitheringDuration) >= U

\* WitheringStep making the reschedule draw before the withering is complete
WitheringStepEarly(data, d) ==
    IF d.again
    THEN [data EXCEPT !.stage_progress = StageProgress(data, WitheringDuration),
                      !.flower_time = age + d.new_delay,
                      !.bud_start = None]
    ELSE [data EXCEPT !.stage_progress = StageProgress(data, WitheringDuration)]

\* the branch for stage 'withering'; again is random.random() < 0.3
WitheringStep(data, d) ==
    IF WitheringDone(data) /\ d.again
    THEN [data EXCEPT !.stage_progress = StageProgress(data, WitheringDuration),
                      !.flower_time = age + d.new_delay,
                      !.bud_start = None]
    ELSE [data EXCEPT !.stage_progress = StageProgress(data, WitheringDuration)]

\* the body of "if data['should_flower'] and self.age >= data['flower_time']":
\* the record it leaves and the value it returns
FlowerStep(data, d) ==
    LET started == StartBud(data)
    IN  CASE started.stage = "bud" ->
               [data |-> BudStep(started), ret |-> TRUE, failed |-> 0]
          [] started.stage = "opening" ->
               [data |-> OpeningStep(started), ret |-> TRUE, failed |-> 0]
          [] started.stage = "bloomed" ->
               [data |-> BloomedStep(started), ret |-> TRUE, failed |-> 0]
          [] started.stage = "withering" ->
               [data |-> WitheringStep(started, d),
                ret |-> ~WitheringDone(started),
                failed |-> IF WitheringDone(started) /\ ~d.again THEN 1 ELSE 0]

\* The history kept with a flower record (not program state):
\*   eval_age    Plant.age at the latest _should_flower call for the branch
\*   bud_tick    Plant.age when the bud of the current cycle started
\*   every_tick  every tick since bud_tick has evaluated the branch
\*   failed_draws  the number of evaluations that found the withering complete
\*                 and whose reschedule draw failed
\*   creations   the number of records created for the branch so far
NoHistory == [eval_age |-> None, bud_tick |-> None, every_tick |-> FALSE,
              failed_draws |-> 0, creations |-> 0]

\* Plant._should_flower(branch) for the branch with identity b under the
\* draws d: whether the branch has a record afterwards, the record, the
\* value returned, and the history
ShouldFlower(b, d) ==
    LET had == b \in DOMAIN flower_data
        h1  == [(IF b \in DOMAIN hist THEN hist[b] ELSE NoHistory)
                   EXCEPT !.eval_age = age]
    IN  IF ~EntryGate(BranchOf(b).growth)
        THEN [has |-> had, data |-> IF had THEN flower_data[b] ELSE <<>>,
              ret |-> FALSE, hist |-> h1]
        ELSE LET data == IF had THEN flower_data[b] ELSE NewRecord(d)
                 hc   == IF had THEN h1 ELSE [h1 EXCEPT !.creations = @ + 1]
             IN  IF data.should_flower /\ age >= data.flower_time
                 THEN LET r  == FlowerStep(data, d)
                          h2 == IF data.bud_start = None
                                THEN [hc EXCEPT !.bud_tick = age, !.every_tick = TRUE]
                                ELSE hc
                      IN  [has |-> TRUE, data |-> r.data, ret |-> r.ret,
                           hist |-> [h2 EXCEPT !.failed_draws = @ + r.failed]]
                 ELSE [has |-> TRUE, data |-> data, ret |-> FALSE, hist |-> hc]

\* the empty flower_data
NoRecords == [b \in {} |-> NoHistory]

\* what one _should_flower call can leave for branch b, the reschedule draw
\* failing at most MaxFailedDraws times for one record
FlowerOutcomes(b) ==
    {o \in {ShouldFlower(b, d) : d \in FlowerDraws} :
        o.hist.failed_draws <= MaxFailedDraws}

\* Plant._draw_flowers: _should_flower on the main stem, then on each child;
\* the sequences of outcomes for the branches 0 .. n
RECURSIVE DrawFlowers(_)
DrawFlowers(n) ==
    IF n < 0 THEN {<<>>}
    ELSE {Append(o, ob) : o \in DrawFlowers(n - 1), ob \in FlowerOutcomes(n)}

\* Draw dropping the flower records of a withering plant
DrawWithered ==
    /\ drawn' = TRUE
    /\ UNCHANGED <<defn, pos, plantVars, thickness, children, last_branch_height,
                   grow_calls, sideVars>>
    /\ IF growth_stage <= 0
       THEN UNCHANGED <<main_stem, stem_health, flowerVars>>
       ELSE /\ stem_health' = health
            /\ main_stem' = StemAfterDraw(main_stem, pos)
            /\ IF health > Health(30) /\ growth_stage > (7 * U) \div 10
                  /\ ~is_withering
               THEN \E o \in DrawFlowers(Len(children)) :
                      /\ flower_data' = [b \in {c \in BranchIds : o[c + 1].has} |->
                                            o[b + 1].data]
                      /\ shown' = [b \in BranchIds |-> o[b + 1].ret]
                      /\ hist' = [b \in BranchIds |-> o[b + 1].hist]
               ELSE /\ shown' = [b \in DOMAIN shown |-> FALSE]
                    /\ flower_data' = NoRecords
                    /\ UNCHANGED hist

\* Plant.draw(screen): the state it changes.  (The leaf placement cache and
\* the cached name surfaces serve the rendering only and are left out; the
\* name placement after the flowers only reads the branches' end positions.)
Draw ==
    /\ drawn' = TRUE
    /\ UNCHANGED <<defn, pos, plantVars, thickness, children, last_branch_height,
                   grow_calls, sideVars>>
    /\ IF growth_stage <= 0
       THEN UNCHANGED <<main_stem, stem_health, flowerVars>>
       ELSE /\ stem_health' = health
            /\ main_stem' = StemAfterDraw(main_stem, pos)
            /\ IF health > Health(30) /\ growth_stage > (7 * U) \div 10
               THEN \E o \in DrawFlowers(Len(children)) :
                      /\ flower_data' = [b \in {c \in BranchIds : o[c + 1].has} |->
                                            o[b + 1].data]
                      /\ shown' = [b \in BranchIds |-> o[b + 1].ret]
                      /\ hist' = [b \in BranchIds |-> o[b + 1].hist]
               ELSE /\ shown' = [b \in DOMAIN shown |-> FALSE]
                    /\ UNCHANGED <<flower_data, hist>>

\* Plant.reset_flower_data(): the records go, and their histories with them
\* (but for the number of records each branch has had)
ResetFlowerData ==
    /\ flower_data' = NoRecords
    /\ hist' = [b \in DOMAIN hist |->
                  [NoHistory EXCEPT !.creations = hist[b].creations]]
    /\ UNCHANGED <<defn, pos, plantVars, thickness, stemVars, stem_health, shown,
                   drawn, grow_calls, sideVars>>

----------------------------------------------------------------------------
(* Garden: the environment (garden.py)                                     *)

\* Garden.day_length, in frames
DayLength == 1200

\* Garden.weather_states
WeatherStates == {"clear", "cloudy", "rain", "storm"}

\* random.randint(300, 600) of _change_weather: the two extremes
WeatherDurations == {300, 600}

\* Garden.__init__: the environment (in fixed point), the clock and the
\* weather; updates counts the update_environment calls
InitGarden ==
    [environment |-> [f \in DOMAIN GardenEnvironment |-> GardenEnvironment[f] * U],
     current_time |-> 0,
     current_weather |-> "clear",
     weather_duration |-> 0,
     updates |-> 0]

\* "Calculate base light level based on time of day", for
\* day_progress = current_time / day_length
BaseLight(current_time) ==
    IF 5 * current_time < DayLength
    THEN 20 * U + (60 * U * 5 * current_time) \div DayLength
    ELSE IF 5 * current_time < 4 * DayLength
    THEN 80 * U
    ELSE 80 * U - (60 * U * (5 * current_time - 4 * DayLength)) \div DayLength

\* "Apply weather effects" on the environment e, given the base light
WeatherApplied(e, weather, light) ==
    CASE weather = "cloudy" ->
           [e EXCEPT !.light_level = (light * 7) \div 10,
                     !.humidity = @ + U \div 10]
      [] weather = "rain" ->
           [e EXCEPT !.light_level = (light * 5) \div 10,
                     !.humidity = @ + (3 * U) \div 10,
                     !.water_level = Min(100 * U, @ + (2 * U) \div 10)]
      [] weather = "storm" ->
           [e EXCEPT !.light_level = (light * 3) \div 10,
                     !.humidity = @ + (5 * U) \div 10,
                     !.water_level = Min(100 * U, @ + (4 * U) \div 10)]
      [] weather = "clear" ->
           [e EXCEPT !.light_level = light,
                     !.water_level = Max(0, @ - U \div 10)]

\* Garden.update_environment with time_speed = 1.0; weather and duration are
\* the draws of _change_weather, read only when the weather's time is up.
\* (The wind and the sky colour serve the rendering only and are left out.)
GardenAfterUpdate(g, weather, duration) ==
    LET current_time == (g.current_time + 1) % DayLength
        remaining == g.weather_duration - 1
        current_weather == IF remaining <= 0 THEN weather ELSE g.current_weather
    IN  [g EXCEPT !.current_time = current_time,
                  !.current_weather = current_weather,
                  !.weather_duration = IF remaining <= 0 THEN duration ELSE remaining,
                  !.environment = WeatherApplied(g.environment, current_weather,
                                                 BaseLight(current_time)),
                  !.updates = @ + 1]

\* Garden.update_environment()
UpdateEnvironment ==
    /\ \E weather \in WeatherStates, duration \in WeatherDurations :
          garden' = GardenAfterUpdate(garden, weather, duration)
    /\ UNCHANGED <<defn, pos, plantVars, thickness, stemVars, stem_health,
                   flowerVars, drawn, grow_calls, env, peer, past, manager>>

----------------------------------------------------------------------------
(* RendererManager (renderer.py)                                           *)

\* a renderer slot: whether it holds a renderer object (gpu_renderer is None
\* until one is created), and that object's initialized flag and size
NoRenderer == [exists |-> FALSE, initialized |-> FALSE, width |-> 0, height |-> 0]

\* Renderer.__init__ (CPURenderer and GPURenderer add nothing that is read)
NewRenderer(width, height) ==
    [exists |-> TRUE, initialized |-> FALSE, width |-> width, height |-> height]

\* before a RendererManager is constructed.  has_opengl is HAS_OPENGL, set
\* when the module is imported; calls counts the method calls made on the
\* manager and returned is the value the latest set_renderer call returned.
NoManager ==
    [constructed |-> FALSE, has_opengl |-> FALSE, width |-> 0, height |-> 0,
     use_gpu |-> FALSE, cpu_renderer |-> NoRenderer, gpu_renderer |-> NoRenderer,
     current_renderer |-> "none", returned |-> TRUE, calls |-> 0]

\* "self.gpu_renderer = GPURenderer(...)" followed by
\* "if self.gpu_renderer.initialize():" inside try, on manager m.  The
\* constructor raises ImportError without OpenGL, before the assignment;
\* initialize() returns True or raises (init_ok tells which), after it.
\* The result is m with the GPU renderer current when all of it succeeded.
GpuAttempt(m, init_ok) ==
    IF ~m.has_opengl
    THEN m
    ELSE IF init_ok
    THEN [m EXCEPT !.gpu_renderer = [NewRenderer(m.width, m.height)
                                        EXCEPT !.initialized = TRUE],
                   !.current_renderer = "gpu"]
    ELSE [m EXCEPT !.gpu_renderer = NewRenderer(m.width, m.height)]

\* RendererManager.__init__(width, height, use_gpu)
ManagerConstructed(width, height, use_gpu, has_opengl, init_ok) ==
    LET m == [constructed |-> TRUE, has_opengl |-> has_opengl,
              width |-> width, height |-> height,
              use_gpu |-> use_gpu /\ has_opengl,
              cpu_renderer |-> [NewRenderer(width, height)
                                   EXCEPT !.initialized = TRUE],
              gpu_renderer |-> NoRenderer,
              current_renderer |-> "cpu", returned |-> TRUE, calls |-> 0]
        tried == GpuAttempt(m, init_ok)
    IN  IF ~m.use_gpu THEN m
        ELSE IF tried.current_renderer = "gpu" THEN tried
        ELSE [tried EXCEPT !.use_gpu = FALSE]

\* RendererManager.set_renderer(use_gpu) on manager m
AfterSetRenderer(m, use_gpu, init_ok) ==
    LET counted == [m EXCEPT !.calls = @ + 1]
        tried == GpuAttempt(counted, init_ok)
    IN  IF use_gpu = m.use_gpu
        THEN [counted EXCEPT !.returned = TRUE]
        ELSE IF use_gpu /\ ~m.gpu_renderer.exists
        THEN IF tried.current_renderer = "gpu"
             THEN [tried EXCEPT !.use_gpu = TRUE, !.returned = TRUE]
             ELSE [tried EXCEPT !.returned = FALSE]
        ELSE IF ~use_gpu
        THEN [counted EXCEPT !.current_renderer = "cpu", !.use_gpu = FALSE,
                             !.returned = TRUE]
        ELSE [counted EXCEPT !.current_renderer = "gpu", !.use_gpu = TRUE,
                             !.returned = TRUE]

\* RendererManager.resize(width, height) on manager m
AfterResize(m, width, height) ==
    [m EXCEPT !.calls = @ + 1, !.width = width, !.height = height,
              !.cpu_renderer.width = width, !.cpu_renderer.height = height,
              !.gpu_renderer.width = IF m.gpu_renderer.exists THEN width ELSE @,
              !.gpu_renderer.height = IF m.gpu_renderer.exists THEN height ELSE @]

\* the plant and the garden, which the manager's methods leave alone
gardenVars == <<defn, pos, plantVars, thickness, stemVars, stem_health, flowerVars,
                drawn, grow_calls, env, peer, past, garden>>

\* RendererManager(width, height, use_gpu)
NewManager(width, height, use_gpu, has_opengl, init_ok) ==
    /\ ~manager.constructed
    /\ manager' = ManagerConstructed(width, height, use_gpu, has_opengl, init_ok)
    /\ UNCHANGED gardenVars

\* manager.set_renderer(use_gpu)
SetRenderer(use_gpu, init_ok) ==
    /\ manager.constructed
    /\ manager' = AfterSetRenderer(manager, use_gpu, init_ok)
    /\ UNCHANGED gardenVars

\* manager.toggle_renderer()
ToggleRenderer(init_ok) ==
    /\ manager.constructed
    /\ manager' = AfterSetRenderer(manager, ~manager.use_gpu, init_ok)
    /\ UNCHANGED gardenVars

\* manager.resize(width, height)
Resize(width, height) ==
    /\ manager.constructed
    /\ manager' = AfterResize(manager, width, height)
    /\ UNCHANGED gardenVars

----------------------------------------------------------------------------
(* Direct calls on an environment system                                   *)

\* EnvironmentSystem.update(environment), called on the plant's environment
\* system
EnvUpdate(e) ==
    /\ env' = EnvironmentUpdated(env, e)
    /\ past' = [past EXCEPT !.environment = e,
                            !.should_wither = @ \/ ShouldWither(env')]
    /\ UNCHANGED <<defn, pos, plantVars, thickness, stemVars, stem_health,
                   flowerVars, drawn, grow_calls, peer, garden, manager>>

----------------------------------------------------------------------------
(* Direct calls on a stem system                                           *)

\* StemSystem.grow(amount), called on the stem system itself
StemGrow(amount) ==
    /\ grow_calls' = grow_calls + 1
    /\ \E s \in StemOutcomes(amount) :
          /\ main_stem' = s.main_stem
          /\ children' = s.children
          /\ last_branch_height' = s.last_branch_height
    /\ UNCHANGED <<defn, pos, plantVars, thickness, stem_health, flowerVars, drawn,
                   sideVars>>

\* StemSystem.draw(surface, pos), called on the stem system itself
StemDraw ==
    /\ main_stem' = StemAfterDraw(main_stem, pos)
    /\ UNCHANGED <<defn, pos, plantVars, thickness, children, last_branch_height,
                   stem_health, flowerVars, drawn, grow_calls, sideVars>>

----------------------------------------------------------------------------
(* Plant definitions and inputs                                            *)

\* StemProperties of a plant that branches once
BaseStem ==
    [thickness |-> 3 * TU, branching_angle |-> 37, branching_variance |-> 0,
     max_branches |-> 2, growth_rate |-> U, branch_spacing |-> (3 * U) \div 10]

\* FloweringCharacteristics: every branch flowers, one tick after it matures;
\* the bloom lasts the default 800 ticks
BaseFlowering ==
    [min_maturity |-> (7 * U) \div 10, chance |-> U, min_delay |-> 1,
     max_delay |-> 1, bloom_duration |-> 800]

\* a fast-growing, short-lived plant whose stem grows in step with it, so
\* that its branches mature after the plant
ShortLived ==
    [growth_rate |-> 100 * U, lifespan |-> 8, flowering |-> BaseFlowering,
     optimal_water |-> <<40, 80>>, optimal_light |-> <<30, 90>>,
     optimal_temp |-> <<15, 25>>, optimal_humidity |-> <<40, 60>>,
     drought_tolerance |-> 0, heat_tolerance |-> 0,
     stem |-> [BaseStem EXCEPT !.growth_rate = U \div 2]]

\* a long-lived plant without branches whose stem matures after the plant,
\* whose flowering is drawn, and whose bloom is short
SlowStem ==
    [ShortLived EXCEPT
        !.lifespan = 5000,
        !.flowering = [min_maturity |-> (7 * U) \div 10, chance |-> U \div 2,
                       min_delay |-> 0, max_delay |-> 0, bloom_duration |-> 2],
        !.stem = [BaseStem EXCEPT !.max_branches = 0, !.growth_rate = U \div 4]]

\* a short-lived plant without branches whose stem matures before the plant
\* is mature enough to flower
LateMaturity ==
    [ShortLived EXCEPT
        !.flowering = [BaseFlowering EXCEPT !.min_maturity = (9 * U) \div 10],
        !.stem = [BaseStem EXCEPT !.max_branches = 0]]

\* the definitions of each specification
LifecycleDefs == {ShortLived, LateMaturity}
FlowerDefs == {SlowStem}
StemDefs ==
    {[ShortLived EXCEPT !.stem = [BaseStem EXCEPT !.max_branches = mb]] :
        mb \in 0 .. 4}
    \cup {[ShortLived EXCEPT !.stem = [BaseStem EXCEPT !.branching_variance = 37,
                                                       !.growth_rate = U \div 2]]}
MisuseDefs == {ShortLived}
ResetDefs == {ShortLived}
PairDefs == {LateMaturity}

\* long-lived plants that never flower, with optimal_water = (40, 80) and no,
\* half and full drought tolerance
DroughtDefs ==
    {[SlowStem EXCEPT !.flowering = [SlowStem.flowering EXCEPT !.chance = 0],
                      !.drought_tolerance = dt] : dt \in {0, U \div 2, U}}

\* plants that never flower and grow slowly: one that lives long enough for
\* stress to wear its health down, one with an odd and one with an even
\* lifespan
StressDefs ==
    {[SlowStem EXCEPT !.flowering = [SlowStem.flowering EXCEPT !.chance = 0],
                      !.growth_rate = 2 * U, !.lifespan = ls] :
        ls \in {5000, 9, 12}}

\* a water level deep below the optimal range (40, 80): stress 0.8
StressWater == 8

\* requirements for the environment system: the plain ones, a plant that
\* tolerates drought fully and heat by half, one whose optimal temperatures
\* start at 0 and whose optimal humidity is a single value, and one whose
\* optimal temperatures start below 0
EnvDefs ==
    {ShortLived,
     [ShortLived EXCEPT !.drought_tolerance = U, !.heat_tolerance = U \div 2],
     [ShortLived EXCEPT !.optimal_temp = <<0, 25>>, !.optimal_humidity = <<50, 50>>],
     [ShortLived EXCEPT !.optimal_temp = <<0 - 5, 25>>]}

\* environments passed to EnvironmentSystem.update: every factor inside the
\* plain optimal ranges, and one factor out of them at a time
MildEnvironment ==
    [water_level |-> 60, light_level |-> 60, temperature |-> 20, humidity |-> 50,
     soil_quality |-> 50]
Environments ==
    {MildEnvironment,
     [MildEnvironment EXCEPT !.water_level = 20],
     [MildEnvironment EXCEPT !.light_level = 15],
     [MildEnvironment EXCEPT !.temperature = 0 - 15],
     [MildEnvironment EXCEPT !.temperature = 50],
     [MildEnvironment EXCEPT !.humidity = 30]}

\* where the garden puts the plant, and the second plant
Positions == {<<400 * U, 550 * U>>}
PeerPosition == <<700 * U, 550 * U>>

\* environment readings: inside the optimal range, halfway out, and out of
\* it by the whole distance or more
WaterLevels == {0, 20, 60, 110}
LightLevels == {15, 60}

\* amounts passed to StemSystem.grow directly
GrowAmounts == {U \div 10, (3 * U) \div 10, 2 * U}
NegativeAmounts == {-(U \div 10), -(2 * U)}

\* bounds of the specifications
MaxAge == 420
MaxAgeFlower == 680
MaxGrowCalls == 4
MaxAgeReset == 16
MaxCreations == 2
MaxAgePair == 12
MaxEnvUpdates == 3
MaxAgeDrought == 1000
MaxAgeStress == 1010
MaxGardenUpdates == 400
MaxManagerCalls == 8

\* window sizes
WindowSizes == {<<1200, 800>>, <<800, 600>>}

----------------------------------------------------------------------------
(* Specifications                                                          *)

\* the state of its own that a newly created plant has at p: all of it but
\* the definition and the StemProperties, which it holds by reference
NewPlant(p) ==
    [pos |-> p, age |-> 0, health |-> Health(100), growth_stage |-> 0,
     is_withering |-> FALSE, wither_time |-> 0,
     main_stem |-> InitMainStem, children |-> <<>>, last_branch_height |-> 0,
     stem_health |-> Health(100),
     flower_data |-> NoRecords, shown |-> NoRecords, hist |-> NoRecords,
     env |-> InitEnvironmentSystem, past |-> NoPast, drawn |-> FALSE]

\* Plant.__init__ and PlantFactory.create_plant for definition d at p, and
\* for a second plant from d
Created(d, p) ==
    /\ defn = d
    /\ pos = p
    /\ age = 0
    /\ health = Health(100)
    /\ growth_stage = 0
    /\ is_withering = FALSE
    /\ wither_time = 0
    /\ thickness = d.stem.thickness
    /\ main_stem = InitMainStem
    /\ children = <<>>
    /\ last_branch_height = 0
    /\ stem_health = Health(100)
    /\ flower_data = NoRecords
    /\ shown = NoRecords
    /\ hist = NoRecords
    /\ drawn = FALSE
    /\ grow_calls = 0
    /\ env = InitEnvironmentSystem
    /\ peer = NewPlant(PeerPosition)
    /\ past = NoPast
    /\ garden = InitGarden
    /\ manager = NoManager

\* One plant in the garden loop (Garden.run: update, then draw), under any
\* weather.
Init == \E d \in LifecycleDefs, p \in Positions : Created(d, p)

Next ==
    \/ \E w \in WaterLevels, l \in LightLevels : age < MaxAge /\ Update(w, l)
    \/ Draw

Spec == Init /\ [][Next]_vars

\* One plant in the garden loop under steady weather inside its optimal
\* ranges, long enough for whole flower cycles.
InitFlower == \E d \in FlowerDefs, p \in Positions : Created(d, p)

NextFlower ==
    \/ age < MaxAgeFlower /\ Update(60, 60)
    \/ Draw

SpecFlower == InitFlower /\ [][NextFlower]_vars

\* A stem system driven directly by grow and draw calls.
InitStem == \E d \in StemDefs, p \in Positions : Created(d, p)

NextStem ==
    \/ \E a \in GrowAmounts : grow_calls < MaxGrowCalls /\ StemGrow(a)
    \/ StemDraw

SpecStem == InitStem /\ [][NextStem]_vars

\* The same, with amounts below zero among the arguments.
NextMisuse ==
    \/ \E a \in GrowAmounts \cup NegativeAmounts :
          grow_calls < MaxGrowCalls /\ StemGrow(a)
    \/ StemDraw

InitMisuse == \E d \in MisuseDefs, p \in Positions : Created(d, p)

SpecMisuse == InitMisuse /\ [][NextMisuse]_vars

\* the state of its own that the plant at hand has
CurrentPlant ==
    [pos |-> pos, age |-> age, health |-> health, growth_stage |-> growth_stage,
     is_withering |-> is_withering, wither_time |-> wither_time,
     main_stem |-> main_stem, children |-> children,
     last_branch_height |-> last_branch_height, stem_health |-> stem_health,
     flower_data |-> flower_data, shown |-> shown, hist |-> hist,
     env |-> env, past |-> past, drawn |-> drawn]

\* The garden turns to its other plant ("for plant in self.plants"): the
\* two plants change places.  The definition, and with it the StemProperties
\* object that both stem systems hold, is the same for both.
NextPlant ==
    /\ peer' = CurrentPlant
    /\ pos' = peer.pos
    /\ age' = peer.age
    /\ health' = peer.health
    /\ growth_stage' = peer.growth_stage
    /\ is_withering' = peer.is_withering
    /\ wither_time' = peer.wither_time
    /\ main_stem' = peer.main_stem
    /\ children' = peer.children
    /\ last_branch_height' = peer.last_branch_height
    /\ stem_health' = peer.stem_health
    /\ flower_data' = peer.flower_data
    /\ shown' = peer.shown
    /\ hist' = peer.hist
    /\ env' = peer.env
    /\ past' = peer.past
    /\ drawn' = peer.drawn
    /\ UNCHANGED <<defn, thickness, grow_calls, garden, manager>>

\* Two plants created from one definition in the garden loop, updated and
\* drawn in any order, under steady weather.
InitPair == \E d \in PairDefs, p \in Positions : Created(d, p)

NextPair ==
    \/ age < MaxAgePair /\ Update(60, 60)
    \/ Draw
    \/ NextPlant

SpecPair == InitPair /\ [][NextPair]_vars

\* One plant in the garden loop in a drought: water_level = 20 on every
\* tick, the light inside the optimal range.
InitDrought == \E d \in DroughtDefs, p \in Positions : Created(d, p)

NextDrought ==
    \/ age < MaxAgeDrought /\ Update(20, 60)
    \/ Draw

SpecDrought == InitDrought /\ [][NextDrought]_vars

\* One plant in the garden loop under steady heavy water stress, from its
\* creation to its death.
InitStress == \E d \in StressDefs, p \in Positions : Created(d, p)

NextStress ==
    \/ age < MaxAgeStress /\ Update(StressWater, 60)
    \/ Draw

SpecStress == InitStress /\ [][NextStress]_vars

\* The environment system of a plant driven directly by update calls.
InitEnv == \E d \in EnvDefs, p \in Positions : Created(d, p)

NextEnv == \E e \in Environments : env.updates < MaxEnvUpdates /\ EnvUpdate(e)

SpecEnv == InitEnv /\ [][NextEnv]_vars

\* One plant in the garden loop under steady weather, its flower records
\* reset at any moment, each branch getting at most MaxCreations records.
InitReset == \E d \in ResetDefs, p \in Positions : Created(d, p)

NextReset ==
    \/ age < MaxAgeReset /\ Update(60, 60)
    \/ Draw
    \/ /\ flower_data # NoRecords
       /\ \A b \in DOMAIN hist : hist[b].creations < MaxCreations
       /\ ResetFlowerData

SpecReset == InitReset /\ [][NextReset]_vars

\* One plant in the garden loop under any weather, the loop never stopping
\* ("while self.running": every frame updates and then draws the plant).
SpecLoop == Init /\ [][Next]_vars /\ WF_vars(Next)

\* The garden's environment under any weather, update_environment called
\* frame after frame.
InitWeather == \E d \in ResetDefs, p \in Positions : Created(d, p)

NextWeather == garden.updates < MaxGardenUpdates /\ UpdateEnvironment

SpecWeather == InitWeather /\ [][NextWeather]_vars

\* A renderer manager constructed and then switched, toggled and resized
\* in any order, every GPU initialisation succeeding or raising.
InitRenderer == \E d \in ResetDefs, p \in Positions : Created(d, p)

NextRenderer ==
    \/ \E size \in WindowSizes, use_gpu \in BOOLEAN, has_opengl \in BOOLEAN,
          init_ok \in BOOLEAN :
          NewManager(size[1], size[2], use_gpu, has_opengl, init_ok)
    \/ \E use_gpu \in BOOLEAN, init_ok \in BOOLEAN :
          manager.calls < MaxManagerCalls /\ SetRenderer(use_gpu, init_ok)
    \/ \E init_ok \in BOOLEAN :
          manager.calls < MaxManagerCalls /\ ToggleRenderer(init_ok)
    \/ \E size \in WindowSizes :
          manager.calls < MaxManagerCalls /\ Resize(size[1], size[2])

SpecRenderer == InitRenderer /\ [][NextRenderer]_vars

----------------------------------------------------------------------------
(* Claims                                                                  *)

\* a fraction of one, in hundredths
Percent(n) == (n * U) \div 100

\* C1: once Plant.is_dead() is true, it is true after every later update,
\* whatever the environment of that update.
C1_DeadStaysDead == [][IsDead => IsDead']_vars

\* a dead plant that has been updated again since its health reached 0
C1_Witness == IsDead /\ health = 0 /\ wither_time >= 2 + 2 * 100

\* C2: health is within [0, 100] in every state reachable by updates.
C2_HealthInRange == 0 <= health /\ health <= Health(100)

\* an update under no stress has left a growing plant at the cap of 100
C2_Witness == age >= 2 /\ ~is_withering /\ growth_stage > 0 /\ health = Health(100)

\* C3: Branch.growth and Plant.growth_stage stay within [0, 1] after any
\* sequence of grow and update calls, for amounts of any size and sign.
C3_GrowthInRange ==
    /\ 0 <= growth_stage /\ growth_stage <= U
    /\ \A b \in BranchIds : 0 <= BranchOf(b).growth /\ BranchOf(b).growth <= U

\* C4: the main stem never has more than max_branches children.
C4_ChildrenWithinMax == Len(children) <= defn.stem.max_branches

\* C5: a grow call in which the spawn condition holds adds exactly two
\* children in that call, no grow call adds any other number, and with
\* max_branches = 2 a main stem with 2 children keeps exactly 2.
C5_SpawnAddsTwo ==
    [][grow_calls' # grow_calls =>
         /\ ( /\ CurrentHeight(main_stem') - last_branch_height
                    >= defn.stem.branch_spacing * main_stem.length
              /\ Len(children) < defn.stem.max_branches )
            => Len(children') = Len(children) + 2
         /\ Len(children') # Len(children) => Len(children') = Len(children) + 2
         /\ (defn.stem.max_branches = 2 /\ Len(children) = 2)
            => Len(children') = 2]_vars

\* with max_branches = 2 and 2 children, the spacing condition is met again
C5_Witness ==
    /\ defn.stem.max_branches = 2
    /\ Len(children) = 2
    /\ grow_calls >= 2
    /\ CurrentHeight(main_stem) - last_branch_height
          >= defn.stem.branch_spacing * main_stem.length

\* C6: children are added only in a grow call after which the main stem's
\* height exceeds the height recorded at the previous spawn (0 before any) by
\* at least branch_spacing * length; the recorded height is the height at
\* that spawn and changes at no other step.
C6_SpawnOnlyAfterSpacing ==
    [][/\ Len(children') > Len(children) =>
            /\ CurrentHeight(main_stem') - last_branch_height
                  >= defn.stem.branch_spacing * main_stem.length
            /\ last_branch_height' = CurrentHeight(main_stem')
       /\ last_branch_height' # last_branch_height =>
            Len(children') > Len(children)]_vars

\* a second spawn has happened, a spacing above the first
C6_Witness ==
    /\ Len(children) = 4
    /\ last_branch_height >= 2 * defn.stem.branch_spacing * main_stem.length

\* C7: a flower whose branch is evaluated on every tick is Bloomed on the
\* tick 250 ticks after the one on which its bud started, and on no earlier
\* tick.
C7_BloomedAfter250 ==
    \A b \in DOMAIN flower_data :
        hist[b].bud_tick # None =>
            LET elapsed == age - hist[b].bud_tick
            IN  /\ elapsed < BudDuration + OpeningDuration
                      => flower_data[b].stage # "bloomed"
                /\ ( /\ hist[b].every_tick
                     /\ hist[b].eval_age = age
                     /\ elapsed = BudDuration + OpeningDuration )
                      => flower_data[b].stage = "bloomed"

\* a flower evaluated on every tick, on its 250th tick
C7_Witness ==
    \E b \in DOMAIN flower_data :
        /\ hist[b].bud_tick # None
        /\ hist[b].every_tick
        /\ hist[b].eval_age = age
        /\ age - hist[b].bud_tick = BudDuration + OpeningDuration
        /\ flower_data[b].stage = "bloomed"

\* C8: stage_progress does not decrease while the stage is unchanged, is 0
\* right after every change of stage, and is always within [0, 1].
C8_ProgressLaw ==
    [][\A b \in DOMAIN flower_data' :
          /\ 0 <= flower_data'[b].stage_progress
          /\ flower_data'[b].stage_progress <= U
          /\ b \in DOMAIN flower_data =>
               IF flower_data'[b].stage = flower_data[b].stage
               THEN flower_data'[b].stage_progress >= flower_data[b].stage_progress
               ELSE flower_data'[b].stage_progress = 0]_vars

\* a flower that has restarted into Bud and progressed in it
C8_Witness ==
    \E b \in DOMAIN flower_data :
        /\ hist[b].failed_draws > 0
        /\ flower_data[b].stage = "bud"
        /\ flower_data[b].stage_progress > 0

\* C9: once a withering has completed with the reschedule draw failing, no
\* later evaluation reschedules flower_time, sets the stage back to Bud or
\* returns true for the branch.
C9_NeverFlowersAgain ==
    [][\A b \in DOMAIN flower_data :
          hist[b].failed_draws > 0 =>
              /\ flower_data'[b].flower_time = flower_data[b].flower_time
              /\ flower_data'[b].stage # "bud"
              /\ ~shown'[b]]_vars

\* C10: an evaluation with branch.growth < 0.95 or growth_stage below
\* min_maturity creates no flower record and returns false.
C10_GateBlocks ==
    [][age' = age =>
         \A b \in BranchIds :
            ( \/ BranchOf(b).growth < Percent(95)
              \/ growth_stage < defn.flowering.min_maturity )
            => /\ b \notin DOMAIN flower_data => b \notin DOMAIN flower_data'
               /\ b \in DOMAIN shown' => ~shown'[b]]_vars

\* a draw has evaluated an immature branch of a plant whose main stem has a
\* flower record, and has left the branch without one
C10_Witness ==
    \E b \in DOMAIN hist :
        /\ hist[b].eval_age = age
        /\ BranchOf(b).growth < Percent(95)
        /\ b \notin DOMAIN flower_data
        /\ 0 \in DOMAIN flower_data

\* C11 (as stated): a step never removes a flower record, and no branch
\* ever gets a second record.
C11_RecordCreatedOnce ==
    [][/\ \A b \in DOMAIN flower_data : b \in DOMAIN flower_data'
       /\ \A b \in DOMAIN hist' : hist'[b].creations <= 1]_vars

\* C11 (amended): every step other than reset_flower_data keeps every flower
\* record in the table and creates no second record for a branch that has
\* one; reset_flower_data empties the table.
C11_RecordsPersistUntilReset ==
    [][\/ ResetFlowerData
       \/ /\ \A b \in DOMAIN flower_data : b \in DOMAIN flower_data'
          /\ \A b \in DOMAIN hist :
                b \in DOMAIN flower_data => hist'[b].creations = hist[b].creations]_vars

\* a branch that has its second record, created after a reset
C11_Witness ==
    \E b \in DOMAIN flower_data : hist[b].creations = 2 /\ is_withering

\* C12 (as stated): no step changes the should_flower flag or the
\* flower_time of an existing flower record.
C12_DrawnOnceFixed ==
    [][\A b \in DOMAIN flower_data :
          b \in DOMAIN flower_data' =>
              /\ flower_data'[b].should_flower = flower_data[b].should_flower
              /\ flower_data'[b].flower_time = flower_data[b].flower_time]_vars

\* C12 (amended): no step changes the should_flower flag of an existing
\* record, and flower_time changes only in an evaluation that finds the
\* withering stage complete, to the current age plus 300 to 600.
C12_FixedButReschedule ==
    [][\A b \in DOMAIN flower_data :
          b \in DOMAIN flower_data' =>
              /\ flower_data'[b].should_flower = flower_data[b].should_flower
              /\ \/ flower_data'[b].flower_time = flower_data[b].flower_time
                 \/ /\ flower_data[b].stage = "withering"
                    /\ flower_data[b].bud_start # None
                    /\ age - flower_data[b].bud_start >= WitheringDuration
                    /\ age' = age
                    /\ flower_data'[b].flower_time - age
                          \in RescheduleMin .. RescheduleMax]_vars

\* a record whose flower_time has been rescheduled and lies ahead
C12_Witness ==
    \E b \in DOMAIN flower_data :
        /\ flower_data[b].should_flower
        /\ flower_data[b].flower_time > age
        /\ flower_data[b].flower_time >= RescheduleMin

\* C13: an update of one plant leaves every value readable through the other
\* plant unchanged, the thickness of its stem included.
C13_UpdateLeavesOtherPlant ==
    [][pos' = pos /\ age' = age + 1 => peer' = peer /\ thickness' = thickness]_vars

\* the stress values Plant._calculate_stress gives for the readings of the
\* garden loop
PlantStressValues ==
    {CalculateStress(w, defn.optimal_water) : w \in WaterLevels}
        \cup {CalculateStress(l, defn.optimal_light) : l \in LightLevels}

\* C14: every per-factor stress value lies within [0, 1].
C14_StressInUnitRange ==
    /\ \A x \in PlantStressValues : 0 <= x /\ x <= U
    /\ ~env.raised =>
          /\ 0 <= env.stress_factors.water /\ env.stress_factors.water <= U
          /\ 0 <= env.stress_factors.light /\ env.stress_factors.light <= U
          /\ 0 <= env.stress_factors.temperature
          /\ env.stress_factors.temperature <= U
          /\ 0 <= env.stress_factors.humidity /\ env.stress_factors.humidity <= U

\* the value lies outside a range whose lower end is 0, whose upper end is
\* top, or whose ends are equal
OutsideDegenerate(value, range, top) ==
    \/ value < range[1] /\ range[1] = 0
    \/ value > range[2] /\ range[2] = top
    \/ value # range[1] /\ range[1] = range[2]

\* C15: no update call ends in a division by zero, and a value outside a
\* range with min = 0, max = 100 or min = max has stress 1.0.
C15_NoDivisionByZero ==
    env.updates > 0 =>
        /\ ~env.raised
        /\ OutsideDegenerate(past.environment.water_level, defn.optimal_water, 100)
              => env.stress_factors.water = U
        /\ OutsideDegenerate(past.environment.light_level, defn.optimal_light, 100)
              => env.stress_factors.light = U
        /\ OutsideDegenerate(past.environment.temperature, defn.optimal_temp, 100)
              => env.stress_factors.temperature = U
        /\ OutsideDegenerate(past.environment.humidity, defn.optimal_humidity, 100)
              => env.stress_factors.humidity = U

\* C16: a plant in a drought (water_level = 20 for optimal_water = (40, 80))
\* has had should_wither() true by the time its age is 1000.
C16_DroughtWithers == age >= MaxAgeDrought => past.should_wither

\* C17: the stored end_pos of every branch equals the end position computed
\* from the branch's current start_pos, angle, length and growth.
C17_EndPosConsistent ==
    \A b \in BranchIds :
        BranchOf(b).end_pos = EndPos(BranchOf(b).start_pos, BranchOf(b).angle,
                                     BranchOf(b).length, BranchOf(b).growth)

\* a stem moved to the plant's position by draw after it has branched, its
\* branches grown since they were added
C17_Witness ==
    /\ Len(children) >= 2
    /\ main_stem.start_pos = pos
    /\ main_stem.end_pos # main_stem.start_pos
    /\ \A i \in 1 .. Len(children) :
          children[i].growth > 0 /\ children[i].start_pos # main_stem.end_pos

\* the water and light readings of the specifications
WaterReadings == WaterLevels \cup {StressWater}
LightReadings == LightLevels

\* 0.005 * (1 - stress) * growth_rate, for the stress of readings w and l
GrowthDelta(w, l) ==
    (5 * (((U - Stress(w, l)) * defn.growth_rate) \div U)) \div 1000

\* the health that max(0, min(100, health + health_change)) leaves
AdjustedHealth(w, l) ==
    LET stress == Stress(w, l)
        change == IF 2 * stress > U THEN 0 - (2 * stress) \div 10
                                    ELSE (U - stress) \div 10
    IN  Max(0, Min(100 * U, health + change))

\* this step raises growth_stage by the growth delta of readings w and l
\* (up to 1) and passes twice the delta to StemSystem.grow
GrowsBy(w, l) ==
    /\ growth_stage' = Min(U, growth_stage + GrowthDelta(w, l))
    /\ IF growth_stage' > 0
       THEN [main_stem |-> main_stem', children |-> children',
             last_branch_height |-> last_branch_height']
                \in StemOutcomes(2 * GrowthDelta(w, l))
       ELSE UNCHANGED stemVars

\* C18 (as stated): every update call on a growing plant whose health is
\* above 50 raises growth_stage by the growth delta of its environment and
\* passes twice the delta to the stem, and none changes only the age of a
\* plant that is not fully grown.
C18_EveryUpdateGrows ==
    [][pos' = pos /\ age' = age + 1 /\ ~is_withering /\ ~is_withering'
          /\ health > 50 * U =>
              /\ \E w \in WaterReadings, l \in LightReadings : GrowsBy(w, l)
              /\ growth_stage < U =>
                    <<health', growth_stage', main_stem'>>
                        # <<health, growth_stage, main_stem>>]_vars

\* C18 (amended): an update call that makes the age even, on a growing plant
\* that does not start withering in it and whose health after the call's
\* stress adjustment is above 50, raises growth_stage by the growth delta
\* and passes twice the delta to the stem; with that health at 50 or below
\* it leaves growth_stage and the stem alone; an update call that makes the
\* age odd changes nothing but the age.
C18_EvenUpdateGrows ==
    [][pos' = pos /\ age' = age + 1 /\ ~is_withering /\ ~is_withering' =>
          IF age' % 2 # 0
          THEN UNCHANGED <<health, growth_stage, stemVars, thickness, wither_time>>
          ELSE \E w \in WaterReadings, l \in LightReadings :
                  /\ health' = IF age' % 5 = 0
                               THEN Max(0, AdjustedHealth(w, l) - Stress(w, l) \div 10)
                               ELSE AdjustedHealth(w, l)
                  /\ IF AdjustedHealth(w, l) > 50 * U
                     THEN GrowsBy(w, l)
                     ELSE UNCHANGED <<growth_stage, stemVars>>]_vars

\* a plant under stress, not yet fully grown, that an even update has grown
\* and whose stem has branched
C18_Witness ==
    /\ age % 2 = 0 /\ ~drawn /\ ~is_withering
    /\ health < 100 * U /\ health > 50 * U
    /\ 0 < growth_stage /\ growth_stage < U
    /\ 0 < main_stem.growth /\ main_stem.growth < U

\* the least n with n * d >= x, for x >= 0 and d > 0
CeilDiv(x, d) == (x + d - 1) \div d

\* the update calls made since the one that started the withering
WitherCalls == age - past.wither_age

\* ceil(h / 0.5) for the health h the plant had when it started withering
WitherSteps == CeilDiv(past.wither_health, U \div 2)

C20_WithersExactlyWhenDue ==
    [][pos' = pos /\ age' = age + 1 /\ ~is_withering =>
          (is_withering' <=> (age' >= defn.lifespan \/ health <= 20 * U))]_vars

\* C20 (amended): an update call makes a growing plant withering exactly
\* when it makes the age even and, at that call, age >= lifespan or
\* health <= 20.
C20_WithersWhenDueAndEven ==
    [][pos' = pos /\ age' = age + 1 /\ ~is_withering =>
          (is_withering' <=>
              (age' % 2 = 0 /\ (age' >= defn.lifespan \/ health <= 20 * U)))]_vars

\* a plant whose withering has just been started by its health, before its
\* lifespan is over
C20_Witness ==
    /\ is_withering /\ wither_time = 0 /\ age = past.wither_age
    /\ health <= 20 * U /\ health > 0
    /\ age < defn.lifespan

\* C21 (as stated): no update call on a growing plant under positive stress
\* leaves the health higher than it was before the call.
C21_NoGainUnderStress ==
    [][\A w \in WaterLevels, l \in LightLevels :
          Update(w, l) /\ ~is_withering /\ Stress(w, l) > 0 => health' <= health]_vars

\* C21 (amended): an update call on a growing plant that makes the age even
\* takes 0.2 * stress from the health when stress > 0.5 and otherwise adds
\* 0.1 * (1 - stress) to it (up to 100), and then takes another 0.1 * stress
\* when the age is a multiple of 5 (down to 0); a call that makes the age odd
\* leaves the health alone.
C21_GainUnlessHighStress ==
    [][\A w \in WaterLevels, l \in LightLevels :
          Update(w, l) /\ ~is_withering /\ ~is_withering' =>
              LET stress == Stress(w, l)
                  periodic == IF age' % 5 = 0 THEN stress \div 10 ELSE 0
              IN  IF age' % 2 # 0
                  THEN health' = health
                  ELSE IF 2 * stress > U
                  THEN health' = Max(0, Max(0, health - (2 * stress) \div 10) - periodic)
                  ELSE health' = Max(0, Min(100 * U, health + (U - stress) \div 10)
                                          - periodic)]_vars

\* a plant that lost 0.2 under stress 1.0 in its first even update and
\* regained 0.05 under stress 0.5 in its second
C21_Witness ==
    /\ age = 4 /\ ~drawn /\ ~is_withering
    /\ health = 100 * U - (2 * U) \div 10 + (U - U \div 2) \div 10

\* the changes of stage along Bud -> Opening -> Bloomed -> Withering -> Bud
StageSuccessor ==
    [bud |-> "opening", opening |-> "bloomed", bloomed |-> "withering",
     withering |-> "bud"]

\* C22: the stage of a flower record starts at Bud and changes only to the
\* next stage of Bud -> Opening -> Bloomed -> Withering -> Bud, one stage at
\* a time, and a Bloomed record stays Bloomed over every evaluation made at
\* an age up to its bloom_end.
C22_StageOrder ==
    [][\A b \in DOMAIN flower_data' :
          IF b \in DOMAIN flower_data
          THEN /\ \/ flower_data'[b].stage = flower_data[b].stage
                  \/ flower_data'[b].stage = StageSuccessor[flower_data[b].stage]
               /\ flower_data[b].stage = "bloomed" /\ age <= flower_data[b].bloom_end
                     => flower_data'[b].stage = "bloomed"
          ELSE flower_data'[b].stage = "bud"]_vars

\* a record that has bloomed and withered and is in the bud of its next cycle
C22_Witness ==
    \E b \in DOMAIN flower_data :
        /\ flower_data[b].stage = "bud"
        /\ flower_data[b].bud_start # None
        /\ flower_data[b].bloom_end # None
        /\ flower_data[b].bloom_end < age

\* C23: a grow(amount) call adds amount * growth_rate to the growth of the
\* main stem and of every child that exists when the call starts, each
\* capped at 1.0; the branches added in the call start at growth 0.
C23_UniformIncrement ==
    [][grow_calls' # grow_calls =>
          \E a \in GrowAmounts :
              LET increment == (a * defn.stem.growth_rate) \div U
              IN  /\ main_stem'.growth = Min(U, main_stem.growth + increment)
                  /\ \A i \in 1 .. Len(children') :
                        children'[i].growth =
                            IF i <= Len(children)
                            THEN Min(U, children[i].growth + increment)
                            ELSE 0]_vars

\* a stem whose children have grown with it, none of them at the cap
C23_Witness ==
    /\ Len(children) >= 2
    /\ main_stem.growth < U
    /\ \A i \in 1 .. Len(children) :
          0 < children[i].growth /\ children[i].growth < U

\* the sum of the four stress values the environment system holds; the
\* average stress of the health step is a quarter of it
EnvStressSum(en) ==
    en.stress_factors.water + en.stress_factors.light
        + en.stress_factors.temperature + en.stress_factors.humidity

\* C24 (as stated): after an update call that returns, growth_rate_modifier
\* is max(0, overall_health / 100 * (1 - avg_stress / 4)) for the average
\* avg_stress of the four stress values.
C24_ModifierQuarterOfAverage ==
    env.updates > 0 /\ ~env.raised =>
        env.growth_rate_modifier =
            Max(0, ((env.overall_health \div 100) * (U - EnvStressSum(env) \div 16))
                       \div U)

\* C24 (amended): an update call that returns takes avg_stress * 2 from
\* overall_health (floor 0) when avg_stress > 0 and otherwise adds
\* 0.1 * soil_quality / 100 (cap 100), and then sets growth_rate_modifier to
\* max(0, overall_health / 100 * (1 - avg_stress)), for the same average
\* avg_stress of the four stress values in both steps.
C24_ModifierOneMinusAverage ==
    [][env'.updates # env.updates /\ ~env'.raised =>
          /\ env'.overall_health =
                IF EnvStressSum(env') > 0
                THEN Max(0, env.overall_health - EnvStressSum(env') \div 2)
                ELSE Min(100 * U, env.overall_health
                                     + (U * past'.environment.soil_quality) \div 1000)
          /\ env'.growth_rate_modifier =
                Max(0, ((env'.overall_health \div 100)
                            * (U - EnvStressSum(env') \div 4)) \div U)]_vars

\* an environment system after an update under stress that has lowered its
\* health and its growth rate modifier
C24_Witness ==
    /\ env.updates > 0 /\ ~env.raised
    /\ EnvStressSum(env) > 0
    /\ env.overall_health < 100 * U
    /\ 0 < env.growth_rate_modifier /\ env.growth_rate_modifier < U

\* C25: every child of the main stem has an empty list of children.
C25_DepthAtMostOne ==
    \A i \in 1 .. Len(children) : children[i].children = <<>>

\* a stem that has added branches twice, and has grown since
C25_Witness ==
    /\ Len(children) = 4
    /\ grow_calls >= 3
    /\ children[4].growth > 0

\* C26: water_level, light_level and humidity of the garden's environment
\* are within [0, 100] after every update_environment call.
C26_EnvironmentInRange ==
    /\ 0 <= garden.environment.water_level
    /\ garden.environment.water_level <= 100 * U
    /\ 0 <= garden.environment.light_level
    /\ garden.environment.light_level <= 100 * U
    /\ 0 <= garden.environment.humidity
    /\ garden.environment.humidity <= 100 * U

C28_EventuallyDead == <>IsDead

\* a plant that lived under optimal conditions throughout, at full health
\* when its lifespan was over, and has died
C28_Witness ==
    /\ IsDead
    /\ past.wither_age >= defn.lifespan
    /\ past.wither_health = 100 * U

\* C29: after every step of a stem system grown by non-negative amounts, no
\* child's growth exceeds the main stem's, and no step lowers the main
\* stem's growth or last_branch_height.
C29_ChildrenBehindMainStem ==
    [][/\ \A i \in 1 .. Len(children') : children'[i].growth <= main_stem'.growth
       /\ main_stem'.growth >= main_stem.growth
       /\ last_branch_height' >= last_branch_height]_vars

\* a stem that has branched twice and grown on: the younger children are
\* behind the older ones, and those behind the main stem
C29_Witness ==
    /\ Len(children) = 4
    /\ 0 < children[3].growth
    /\ children[3].growth < children[1].growth
    /\ children[1].growth < main_stem.growth
    /\ main_stem.growth < U
    /\ last_branch_height > defn.stem.branch_spacing * main_stem.length

\* C30: the current renderer of a constructed manager is one whose
\* initialize() has completed, and it is the GPU renderer exactly when
\* use_gpu is true.
C30_CurrentRendererInitialized ==
    manager.constructed =>
        /\ manager.current_renderer \in {"cpu", "gpu"}
        /\ manager.current_renderer = "cpu" => manager.cpu_renderer.initialized
        /\ manager.current_renderer = "gpu" =>
              manager.gpu_renderer.exists /\ manager.gpu_renderer.initialized
        /\ manager.use_gpu <=> manager.current_renderer = "gpu"

====
